---- MODULE Spec2Model ----
(***************************************************************************)
(* The Piwik template tags of django-analytical                            *)
(* (analytical/templatetags/piwik.py): the pageview tag (PiwikNode), the   *)
(* search tag (piwik_search) and the context scanner                       *)
(* (_get_additional_calls).                                                *)
(*                                                                         *)
(* A Python string is modelled as a sequence of chunks.  A chunk is a TLA+ *)
(* string standing for a run of characters: the literal pieces of the      *)
(* templates are one chunk each, data (settings, context keys, values) is  *)
(* written one character per chunk so that the regular expressions,        *)
(* str.startswith, slicing and str.split work on characters.  String       *)
(* concatenation and %-formatting are \o.                                  *)
(***************************************************************************)
EXTENDS Integers, Sequences, FiniteSets, TLC

VARIABLES settings, node, registered, last

vars == <<settings, node, registered, last>>

(***************************************************************************)
(* Bounds of the model.                                                    *)
(***************************************************************************)
\* the number of scopes (dicts) of a template context
MaxScopes == 2
\* the number of variables of a template context, over all its scopes
MaxVars == 3

(***************************************************************************)
(* Text helpers: the str operations the module uses.                       *)
(***************************************************************************)
\* s.startswith(p)
StartsWith(s, p) == Len(s) >= Len(p) /\ SubSeq(s, 1, Len(p)) = p

\* s[n:]
DropPrefix(s, n) == SubSeq(s, n + 1, Len(s))

\* the position of the first chunk c of s at or after position i, 0 if none
RECURSIVE FindFrom(_, _, _)
FindFrom(s, c, i) ==
    IF i > Len(s) THEN 0
    ELSE IF s[i] = c THEN i
    ELSE FindFrom(s, c, i + 1)

\* s.split(sep) for a one-character separator: the parts between separators
RECURSIVE Split(_, _)
Split(s, sep) ==
    LET p == FindFrom(s, sep, 1) IN
    IF p = 0 THEN <<s>>
    ELSE <<SubSeq(s, 1, p - 1)>> \o Split(SubSeq(s, p + 1, Len(s)), sep)

DigitChars == <<"0", "1", "2", "3", "4", "5", "6", "7", "8", "9">>

Digits == {DigitChars[i] : i \in 1..10}

\* "%d" % n for n >= 0
RECURSIVE Decimal(_)
Decimal(n) ==
    IF n < 10 THEN <<DigitChars[n + 1]>>
    ELSE Decimal(n \div 10) \o <<DigitChars[(n % 10) + 1]>>

(***************************************************************************)
(* Regular expressions, matched as Python's re does: a set of positions    *)
(* (0..Len(s)) is advanced through the pattern piece by piece.             *)
(***************************************************************************)
\* [^excl]+ from any position of P
ClassPlus(s, P, excl) ==
    {j \in 1..Len(s) : \E i \in P : i < j /\ \A k \in (i + 1)..j : s[k] \notin excl}

\* [incl]+ from any position of P
InClassPlus(s, P, incl) ==
    {j \in 1..Len(s) : \E i \in P : i < j /\ \A k \in (i + 1)..j : s[k] \in incl}

\* a literal character c from any position of P
Lit(s, P, c) == {i + 1 : i \in {p \in P : p < Len(s) /\ s[p + 1] = c}}

\* $ : the end of the string, or just before a newline that ends the string
EndAnchor(s, P) ==
    \E p \in P : p = Len(s) \/ (p = Len(s) - 1 /\ s[Len(s)] = "\n")

DomainExcl == {".", "/", "?", "#", "@", ":"}

PathExcl == {"/", "?", "#", "@", ":"}

\* ([^./?#@:]+\.)
LabelDot(s, P) == Lit(s, ClassPlus(s, P, DomainExcl), ".")

\* ([^./?#@:]+\.)+
RECURSIVE LabelDotPlus(_, _, _)
LabelDotPlus(s, P, acc) ==
    LET R == LabelDot(s, P) \ acc IN
    IF R = {} THEN acc ELSE LabelDotPlus(s, R, acc \cup R)

\* (([^./?#@:]+\.)+[^./?#@:]+)
DomainName(s, P) == ClassPlus(s, LabelDotPlus(s, P, {}), DomainExcl)

\* (([^./?#@:]+\.)+[^./?#@:]+)+
RECURSIVE DomainNamePlus(_, _, _)
DomainNamePlus(s, P, acc) ==
    LET R == DomainName(s, P) \ acc IN
    IF R = {} THEN acc ELSE DomainNamePlus(s, R, acc \cup R)

\* (/[^/?#@:]+)
PathSegment(s, P) == ClassPlus(s, Lit(s, P, "/"), PathExcl)

\* (/[^/?#@:]+)*
RECURSIVE PathStar(_, _, _)
PathStar(s, P, acc) ==
    LET R == PathSegment(s, P) \ acc IN
    IF R = {} THEN acc ELSE PathStar(s, R, acc \cup R)

\* ^(([^./?#@:]+\.)+[^./?#@:]+)+(/[^/?#@:]+)*$
DOMAINPATH_RE(s) ==
    LET D == DomainNamePlus(s, {0}, {}) IN
    EndAnchor(s, PathStar(s, D, D))

\* ^\d+$
SITEID_RE(s) == EndAnchor(s, InClassPlus(s, {0}, Digits))

(***************************************************************************)
(* Settings and the setting validator.  A setting is a record: present     *)
(* (the attribute exists on django.conf.settings) and its value.           *)
(***************************************************************************)
Unset == [present |-> FALSE, value |-> <<>>]

Setting(v) == [present |-> TRUE, value |-> v]

\* value_re.search(value), for the two patterns of the module
RegexSearch(value_re, value) ==
    IF value_re = "DOMAINPATH_RE" THEN DOMAINPATH_RE(value) ELSE SITEID_RE(value)

\* analytical.utils.get_required_setting: the value of the setting, or an
\* AnalyticalException when it is absent or does not match value_re
get_required_setting(setting, value_re) ==
    LET s == settings[setting] IN
    IF s.present /\ RegexSearch(value_re, s.value)
    THEN [exc |-> "none", value |-> s.value]
    ELSE [exc |-> "AnalyticalException", value |-> <<>>]

NoNode == [made |-> FALSE, domain_path |-> <<>>, site_id |-> <<>>]

\* PiwikNode.__init__: both settings are read and validated, the domain
\* path first; the first failure raises and no object is constructed
PiwikNode_init ==
    LET d == get_required_setting("PIWIK_DOMAIN_PATH", "DOMAINPATH_RE")
        i == get_required_setting("PIWIK_SITE_ID", "SITEID_RE")
    IN  IF d.exc # "none" THEN [exc |-> d.exc, node |-> NoNode]
        ELSE IF i.exc # "none" THEN [exc |-> i.exc, node |-> NoNode]
        ELSE [exc |-> "none",
              node |-> [made |-> TRUE, domain_path |-> d.value, site_id |-> i.value]]

(***************************************************************************)
(* TRACKING_CODE, cut into chunks at the places where values are           *)
(* interpolated and around the pieces the properties name.                 *)
(***************************************************************************)
SCRIPT_OPEN == "<script type=\"text/javascript\">"

PAQ_INIT == "\n  var _paq = _paq || [];\n  "

METHOD_OPEN == "\n  _paq.push("

METHOD_CLOSE == ");\n  _paq.push(['enableLinkTracking']);\n  (function() {\n    "

URL_OPEN == "var u=((\"https:\" == document.location.protocol) ? \"https\" : \"http\") + \"//"

URL_CLOSE == "/\";\n    "

TRACKER_URL == "_paq.push(['setTrackerUrl', u+'piwik.php']);\n    "

SITEID_OPEN == "_paq.push(['setSiteId', "

SITEID_CLOSE == "]);\n    "

LOADER == "var d=document, g=d.createElement('script'), s=d.getElementsByTagName('script')[0]; g.type='text/javascript';\n    g.defer=true; g.async=true; g.src=u+'piwik.js'; s.parentNode.insertBefore(g,s);\n  })();\n"

SCRIPT_CLOSE == "</script>"

IMG_OPEN == "\n<noscript><p><img src=\"http://"

IMG_PATH == "/piwik.php?idsite="

IMG_CLOSE == "\" style=\"border:0;\" alt=\"\" /></p></noscript>\n"

\* TRACKING_CODE % {'method': ..., 'url': ..., 'siteid': ..., 'pretrack': ...}
TRACKING_CODE(method, url, siteid, pretrack) ==
    <<"\n", SCRIPT_OPEN, PAQ_INIT>> \o pretrack
    \o <<METHOD_OPEN>> \o method
    \o <<METHOD_CLOSE, URL_OPEN>> \o url
    \o <<URL_CLOSE, TRACKER_URL, SITEID_OPEN>> \o siteid
    \o <<SITEID_CLOSE, LOADER, SCRIPT_CLOSE, IMG_OPEN>> \o url
    \o <<IMG_PATH>> \o siteid
    \o <<IMG_CLOSE>>

\* the statements _get_additional_calls writes
USERID_OPEN == "_paq.push([\"setUserId\", \""

TITLE_OPEN == "_paq.push([\"setDocumentTitle\", \""

DQ_CLOSE == "\"]);\n"

CUSTOM_OPEN == "_paq.push(['setCustomVariable', "

CUSTOM_NAME == ", '"

CUSTOM_NEXT == "', '"

CUSTOM_CLOSE == "']);\n"

(***************************************************************************)
(* The template context: a sequence of scopes in the order `for dict_ in   *)
(* context` yields them, each a function from keys to values.              *)
(***************************************************************************)
PREFIX == <<"p", "i", "w", "i", "k", "_">>

NoUser == [present |-> FALSE, authenticated |-> FALSE, username |-> <<>>]

NoIdentity == [present |-> FALSE, value |-> <<>>]

\* analytical.utils.get_user_from_context: the user of the context, if any
get_user_from_context(user) == user

\* _identify(user)
identify(user) == user.username

\* analytical.utils.get_identity: an identity the context overrides, else
\* identity_func(user)
get_identity(identity, user) ==
    IF identity.present THEN identity.value ELSE identify(user)

\* the loop over the context's scopes: vars[var[6:]] = val for every
\* prefixed variable, a later scope overwriting an earlier one
RECURSIVE CollectVars(_, _, _)
CollectVars(context, i, acc) ==
    IF i > Len(context) THEN acc
    ELSE LET dict == context[i]
             new == {DropPrefix(var, 6) : var \in {v \in DOMAIN dict : StartsWith(v, PREFIX)}}
         IN  CollectVars(context, i + 1,
                 [k \in (DOMAIN acc) \cup new |->
                     IF k \in new THEN dict[PREFIX \o k] ELSE acc[k]])

EmptyDict == [k \in {} |-> <<>>]

\* del d[key]
Del(d, key) == [k \in (DOMAIN d) \ {key} |-> d[k]]

K_userid == <<"u", "s", "e", "r", "i", "d">>

K_document_title == <<"d", "o", "c", "u", "m", "e", "n", "t", "_", "t", "i", "t", "l", "e">>

\* the variables left for the custom-variable loop
CustomVars(context) == Del(Del(CollectVars(context, 1, EmptyDict), K_userid), K_document_title)

\* the orders in which vars.items() may yield the keys of d
RECURSIVE Orders(_)
Orders(S) ==
    IF S = {} THEN {<<>>}
    ELSE UNION {{<<k>> \o o : o \in Orders(S \ {k})} : k \in S}

\* a scanner that looks the user up although the context names the user id
UserIdCalls_LooksUpAnyway(cvars, user, identity) ==
    (IF user.present /\ user.authenticated
     THEN <<USERID_OPEN>> \o get_identity(identity, user) \o <<DQ_CLOSE>>
     ELSE <<>>)
    \o (IF K_userid \in DOMAIN cvars
        THEN <<USERID_OPEN>> \o cvars[K_userid] \o <<DQ_CLOSE>>
        ELSE <<>>)

\* a scanner that does not ask whether the user is authenticated
UserIdCalls_NoAuthCheck(cvars, user, identity) ==
    IF K_userid \notin DOMAIN cvars
    THEN IF user.present
         THEN <<USERID_OPEN>> \o get_identity(identity, user) \o <<DQ_CLOSE>>
         ELSE <<>>
    ELSE <<USERID_OPEN>> \o cvars[K_userid] \o <<DQ_CLOSE>>

\* the setUserId part of _get_additional_calls
UserIdCalls(cvars, user, identity) ==
    IF K_userid \notin DOMAIN cvars
    THEN LET u == get_user_from_context(user) IN
         IF u.present /\ u.authenticated
         THEN <<USERID_OPEN>> \o get_identity(identity, u) \o <<DQ_CLOSE>>
         ELSE <<>>
    ELSE <<USERID_OPEN>> \o cvars[K_userid] \o <<DQ_CLOSE>>

\* the setDocumentTitle part of _get_additional_calls
TitleCalls(cvars) ==
    IF K_document_title \in DOMAIN cvars
    THEN <<TITLE_OPEN>> \o cvars[K_document_title] \o <<DQ_CLOSE>>
    ELSE <<>>

\* a loop that numbers the custom variables from 1
RECURSIVE CustomCalls_FromOne(_, _, _)
CustomCalls_FromOne(cvars, order, i) ==
    IF i > Len(order) THEN [exc |-> "none", text |-> <<>>]
    ELSE LET raw_name == order[i]
             parts == Split(raw_name, "_")
             rest == CustomCalls_FromOne(cvars, order, i + 1)
         IN  IF Len(parts) # 2 THEN [exc |-> "ValueError", text |-> <<>>]
             ELSE IF rest.exc # "none" THEN rest
             ELSE [exc |-> "none",
                   text |-> <<CUSTOM_OPEN>> \o Decimal(i)
                            \o <<CUSTOM_NAME>> \o parts[1]
                            \o <<CUSTOM_NEXT>> \o cvars[raw_name]
                            \o <<CUSTOM_NEXT>> \o parts[2]
                            \o <<CUSTOM_CLOSE>> \o rest.text]

\* a loop that skips a key it cannot split into name and scope
RECURSIVE CustomCalls_SkipsMalformed(_, _, _)
CustomCalls_SkipsMalformed(cvars, order, i) ==
    IF i > Len(order) THEN [exc |-> "none", text |-> <<>>]
    ELSE LET raw_name == order[i]
             parts == Split(raw_name, "_")
             rest == CustomCalls_SkipsMalformed(cvars, order, i + 1)
         IN  IF Len(parts) # 2 THEN rest
             ELSE [exc |-> "none",
                   text |-> <<CUSTOM_OPEN>> \o Decimal(i - 1)
                            \o <<CUSTOM_NAME>> \o parts[1]
                            \o <<CUSTOM_NEXT>> \o cvars[raw_name]
                            \o <<CUSTOM_NEXT>> \o parts[2]
                            \o <<CUSTOM_CLOSE>> \o rest.text]

\* the loop `for index, (raw_name, value) in enumerate(vars.items())`, from
\* position i of the iteration order on: the statements, or ValueError when
\* raw_name.split('_') does not unpack into name, scope
RECURSIVE CustomCalls(_, _, _)
CustomCalls(cvars, order, i) ==
    IF i > Len(order) THEN [exc |-> "none", text |-> <<>>]
    ELSE LET raw_name == order[i]
             parts == Split(raw_name, "_")
             rest == CustomCalls(cvars, order, i + 1)
         IN  IF Len(parts) # 2 THEN [exc |-> "ValueError", text |-> <<>>]
             ELSE IF rest.exc # "none" THEN rest
             ELSE [exc |-> "none",
                   text |-> <<CUSTOM_OPEN>> \o Decimal(i - 1)
                            \o <<CUSTOM_NAME>> \o parts[1]
                            \o <<CUSTOM_NEXT>> \o cvars[raw_name]
                            \o <<CUSTOM_NEXT>> \o parts[2]
                            \o <<CUSTOM_CLOSE>> \o rest.text]

\* a scanner that writes the document title after the custom variables
get_additional_calls_TitleLast(context, user, identity, order) ==
    LET cvars == CollectVars(context, 1, EmptyDict)
        custom == CustomCalls(Del(Del(cvars, K_userid), K_document_title), order, 1)
    IN  IF custom.exc # "none" THEN [exc |-> custom.exc, text |-> <<>>]
        ELSE [exc |-> "none",
              text |-> (custom.text \o TitleCalls(cvars)) \o UserIdCalls(cvars, user, identity)]

\* _get_additional_calls(context); order is the order in which vars.items()
\* yields the custom variables
get_additional_calls(context, user, identity, order) ==
    LET cvars == CollectVars(context, 1, EmptyDict)
        pretrack == UserIdCalls(cvars, user, identity)
        title == TitleCalls(cvars)
        custom == CustomCalls(Del(Del(cvars, K_userid), K_document_title), order, 1)
    IN  IF custom.exc # "none" THEN [exc |-> custom.exc, text |-> <<>>]
        ELSE [exc |-> "none", text |-> (title \o custom.text) \o pretrack]

(***************************************************************************)
(* json.dumps of the values a template passes to the search tag.           *)
(***************************************************************************)
JStr(s) == [type |-> "str", s |-> s, n |-> 0, b |-> FALSE]

JInt(n) == [type |-> "int", s |-> <<>>, n |-> n, b |-> FALSE]

JBool(b) == [type |-> "bool", s |-> <<>>, n |-> 0, b |-> b]

\* the escapes of a JSON string: the quote, the backslash, the newline
RECURSIVE JsonEscape(_)
JsonEscape(s) ==
    IF s = <<>> THEN <<>>
    ELSE (CASE s[1] = "\"" -> <<"\\", "\"">>
            [] s[1] = "\\" -> <<"\\", "\\">>
            [] s[1] = "\n" -> <<"\\", "n">>
            [] OTHER -> <<s[1]>>) \o JsonEscape(Tail(s))

\* json.dumps(v)
json_dumps(v) ==
    CASE v.type = "str" -> <<"\"">> \o JsonEscape(v.s) \o <<"\"">>
      [] v.type = "int" -> Decimal(v.n)
      [] v.type = "bool" -> IF v.b THEN <<"t", "r", "u", "e">>
                                   ELSE <<"f", "a", "l", "s", "e">>

(***************************************************************************)
(* The internal-IP gate.                                                   *)
(***************************************************************************)
COMMENT_OPEN == "<!-- "

COMMENT_NOTE == " disabled on internal IP address\n"

COMMENT_CLOSE == "\n-->"

\* analytical.utils.disable_html: the snippet inside an HTML comment
disable_html(html, service) ==
    <<COMMENT_OPEN, service, COMMENT_NOTE>> \o html \o <<COMMENT_CLOSE>>

\* analytical.utils.is_internal_ip: whether the request of the context comes
\* from an internal address; the verdict is an input of the render
is_internal_ip(internal, prefix) == internal

(***************************************************************************)
(* The two tags.                                                           *)
(***************************************************************************)
PAGEVIEW_METHOD == <<"['trackPageView']">>

SEARCH_OPEN == "['trackSiteSearch', "

SEARCH_SEP == ", "

SEARCH_CLOSE == "]"

\* a render that passes the site ID for the URL and the domain path for the ID
PiwikNode_render_SwapsValues(self, context, user, identity, order, internal) ==
    LET pretrack == get_additional_calls(context, user, identity, order)
        html == TRACKING_CODE(PAGEVIEW_METHOD, self.site_id, self.domain_path,
                              pretrack.text)
    IN  IF pretrack.exc # "none" THEN [exc |-> pretrack.exc, html |-> <<>>]
        ELSE IF is_internal_ip(internal, "PIWIK")
        THEN [exc |-> "none", html |-> disable_html(html, "Piwik")]
        ELSE [exc |-> "none", html |-> html]

\* a render that reads and validates the settings again, as the search tag does
PiwikNode_render_ReadsSettings(self, context, user, identity, order, internal) ==
    LET domain_path == get_required_setting("PIWIK_DOMAIN_PATH", "DOMAINPATH_RE")
        site_id == get_required_setting("PIWIK_SITE_ID", "SITEID_RE")
        pretrack == get_additional_calls(context, user, identity, order)
        html == TRACKING_CODE(PAGEVIEW_METHOD, domain_path.value, site_id.value,
                              pretrack.text)
    IN  IF domain_path.exc # "none" THEN [exc |-> domain_path.exc, html |-> <<>>]
        ELSE IF site_id.exc # "none" THEN [exc |-> site_id.exc, html |-> <<>>]
        ELSE IF pretrack.exc # "none" THEN [exc |-> pretrack.exc, html |-> <<>>]
        ELSE IF is_internal_ip(internal, "PIWIK")
        THEN [exc |-> "none", html |-> disable_html(html, "Piwik")]
        ELSE [exc |-> "none", html |-> html]

\* PiwikNode.render(context)
PiwikNode_render(self, context, user, identity, order, internal) ==
    LET pretrack == get_additional_calls(context, user, identity, order)
        html == TRACKING_CODE(PAGEVIEW_METHOD, self.domain_path, self.site_id,
                              pretrack.text)
    IN  IF pretrack.exc # "none" THEN [exc |-> pretrack.exc, html |-> <<>>]
        ELSE IF is_internal_ip(internal, "PIWIK")
        THEN [exc |-> "none", html |-> disable_html(html, "Piwik")]
        ELSE [exc |-> "none", html |-> html]

\* a method argument with the count before the category
SearchMethod_CountFirst(query, category, count) ==
    <<SEARCH_OPEN>> \o json_dumps(query)
    \o <<SEARCH_SEP>> \o json_dumps(count)
    \o <<SEARCH_SEP>> \o json_dumps(category)
    \o <<SEARCH_CLOSE>>

\* the method argument of piwik_search
SearchMethod(query, category, count) ==
    <<SEARCH_OPEN>> \o json_dumps(query)
    \o <<SEARCH_SEP>> \o json_dumps(category)
    \o <<SEARCH_SEP>> \o json_dumps(count)
    \o <<SEARCH_CLOSE>>

\* piwik_search(context, query, category, count)
piwik_search(context, query, category, count, user, identity, order, internal) ==
    LET domain_path == get_required_setting("PIWIK_DOMAIN_PATH", "DOMAINPATH_RE")
        site_id == get_required_setting("PIWIK_SITE_ID", "SITEID_RE")
        pretrack == get_additional_calls(context, user, identity, order)
        html == TRACKING_CODE(SearchMethod(query, category, count),
                              domain_path.value, site_id.value, pretrack.text)
    IN  IF domain_path.exc # "none" THEN [exc |-> domain_path.exc, html |-> <<>>]
        ELSE IF site_id.exc # "none" THEN [exc |-> site_id.exc, html |-> <<>>]
        ELSE IF pretrack.exc # "none" THEN [exc |-> pretrack.exc, html |-> <<>>]
        ELSE IF is_internal_ip(internal, "PIWIK")
        THEN [exc |-> "none", html |-> disable_html(html, "Piwik")]
        ELSE [exc |-> "none", html |-> html]

(***************************************************************************)
(* Inputs.                                                                 *)
(***************************************************************************)
EXAMPLE_COM == <<"e", "x", "a", "m", "p", "l", "e", ".", "c", "o", "m">>

\* PIWIK_DOMAIN_PATH: example.com, a.b/c, a.b/ (trailing slash), h://a.b
\* (scheme), ab (no dot), or not set
DomainChoices ==
    {Unset,
     Setting(EXAMPLE_COM),
     Setting(<<"a", ".", "b", "/", "c">>),
     Setting(<<"a", ".", "b", "/">>),
     Setting(<<"h", ":", "/", "/", "a", ".", "b">>),
     Setting(<<"a", "b">>)}

\* PIWIK_SITE_ID: 5, 42, 5 and a newline, x, 5x, or not set
SiteChoices ==
    {Unset,
     Setting(<<"5">>),
     Setting(<<"4", "2">>),
     Setting(<<"5", "\n">>),
     Setting(<<"x">>),
     Setting(<<"5", "x">>)}

KEY_USERID == PREFIX \o K_userid

KEY_TITLE == PREFIX \o K_document_title

\* piwik_a_page
KEY_A == PREFIX \o <<"a", "_", "p", "a", "g", "e">>

\* piwik_b_visit
KEY_B == PREFIX \o <<"b", "_", "v", "i", "s", "i", "t">>

\* piwik_bad: no separator of name and scope
KEY_BAD == PREFIX \o <<"b", "a", "d">>

\* title: a variable of the page, without the prefix
KEY_OTHER == <<"t", "i", "t", "l", "e">>

Keys == {KEY_USERID, KEY_TITLE, KEY_A, KEY_B, KEY_BAD, KEY_OTHER}

\* context values: 42, Home, and a value that holds markup
V42 == <<"4", "2">>

VHome == <<"H", "o", "m", "e">>

VMarkup == <<"-->", "<script>">>

\* the values a key takes: two for the user id and for one custom variable,
\* so that scopes can disagree on them
ValuesOf(key) ==
    IF key \in {KEY_USERID, KEY_A} THEN {V42, VMarkup}
    ELSE IF key = KEY_TITLE THEN {VHome}
    ELSE {V42}

\* the dicts over the keys D
DictsOver(D) == {d \in [D -> {V42, VHome, VMarkup}] : \A k \in D : d[k] \in ValuesOf(k)}

\* the dicts of at most n variables
ScopesOf(n) ==
    UNION {DictsOver(D) : D \in {S \in SUBSET Keys : Cardinality(S) <= n}}

\* the contexts of exactly k scopes and at most n variables
RECURSIVE ContextsOf(_, _)
ContextsOf(k, n) ==
    IF k = 0 THEN {<<>>}
    ELSE UNION {{<<d>> \o c : c \in ContextsOf(k - 1, n - Cardinality(DOMAIN d))} :
                d \in ScopesOf(n)}

Contexts == UNION {ContextsOf(k, MaxVars) : k \in 0..MaxScopes}

\* the contexts of the life-cycle specification: empty, and one custom variable
LifeContexts == {<<>>, <<[k \in {KEY_A} |-> V42]>>}

Anonymous == [present |-> TRUE, authenticated |-> FALSE, username |-> <<>>]

Bob == [present |-> TRUE, authenticated |-> TRUE, username |-> <<"b", "o", "b">>]

\* the user of the context and the identity the context overrides it with
Visitors ==
    {<<NoUser, NoIdentity>>, <<Anonymous, NoIdentity>>, <<Bob, NoIdentity>>,
     <<Bob, [present |-> TRUE, value |-> <<"i", "d">>]>>}

\* the arguments of the search tag: query, category, count; an omitted
\* category or count is the default False
SearchArgs ==
    {<<JStr(<<"s", "h", "o", "e", "s">>), JStr(<<"a", "p", "p", "a", "r", "e", "l">>), JInt(10)>>,
     <<JStr(<<"s", "h", "o", "e", "s">>), JBool(FALSE), JBool(FALSE)>>,
     <<JStr(<<"a", "\"", "b">>), JBool(FALSE), JInt(10)>>}

(***************************************************************************)
(* The state: the Django settings, the PiwikNode the template holds, the   *)
(* registration with the generic analytical tags, and the last call with   *)
(* its arguments and its outcome.                                          *)
(***************************************************************************)
Call(op) ==
    [op |-> op, exc |-> "none", html |-> <<>>, bits |-> 0,
     context |-> <<>>, user |-> NoUser, identity |-> NoIdentity,
     order |-> <<>>, internal |-> FALSE,
     query |-> JBool(FALSE), category |-> JBool(FALSE), count |-> JBool(FALSE)]

Init ==
    /\ settings = [PIWIK_DOMAIN_PATH |-> Unset, PIWIK_SITE_ID |-> Unset]
    /\ node = NoNode
    /\ registered = FALSE
    /\ last = Call("start")

\* the project's settings change (a deployment, override_settings)
Configure ==
    /\ \/ \E d \in DomainChoices : settings' = [settings EXCEPT !.PIWIK_DOMAIN_PATH = d]
       \/ \E s \in SiteChoices : settings' = [settings EXCEPT !.PIWIK_SITE_ID = s]
    /\ last' = Call("configure")
    /\ UNCHANGED <<node, registered>>

\* piwik(parser, token): {% piwik %} with bits - 1 arguments
piwik ==
    \E bits \in 1..2 :
        LET made == PiwikNode_init IN
        /\ last' = [Call("piwik") EXCEPT
                        !.bits = bits,
                        !.exc = IF bits > 1 THEN "TemplateSyntaxError" ELSE made.exc]
        /\ node' = IF bits > 1 \/ made.exc # "none" THEN node ELSE made.node
        /\ UNCHANGED <<settings, registered>>

\* contribute_to_analytical(add_node)
contribute_to_analytical ==
    LET made == PiwikNode_init IN
    /\ last' = [Call("contribute_to_analytical") EXCEPT !.exc = made.exc]
    /\ registered' = IF made.exc = "none" THEN TRUE ELSE registered
    /\ UNCHANGED <<settings, node>>

\* node.render(context) on the node the template holds
RenderWith(context, user, identity, order, internal) ==
    /\ node.made
    /\ LET r == PiwikNode_render(node, context, user, identity, order, internal) IN
       last' = [Call("render") EXCEPT
                    !.exc = r.exc, !.html = r.html, !.context = context,
                    !.user = user, !.identity = identity, !.order = order,
                    !.internal = internal]
    /\ UNCHANGED <<settings, node, registered>>

\* {% piwik_search query category count %}
SearchWith(context, query, category, count, user, identity, order, internal) ==
    /\ LET r == piwik_search(context, query, category, count,
                             user, identity, order, internal) IN
       last' = [Call("piwik_search") EXCEPT
                    !.exc = r.exc, !.html = r.html, !.context = context,
                    !.user = user, !.identity = identity, !.order = order,
                    !.internal = internal, !.query = query,
                    !.category = category, !.count = count]
    /\ UNCHANGED <<settings, node, registered>>

\* a render of the page, for a visitor without a user
Render ==
    \E context \in LifeContexts, internal \in BOOLEAN :
    \E order \in Orders(DOMAIN CustomVars(context)) :
        RenderWith(context, NoUser, NoIdentity, order, internal)

\* a render of the search page, for a visitor without a user
Search ==
    \E context \in LifeContexts, internal \in BOOLEAN, a \in SearchArgs :
    \E order \in Orders(DOMAIN CustomVars(context)) :
        SearchWith(context, a[1], a[2], a[3], NoUser, NoIdentity, order, internal)

\* the life cycle: configuration, template parsing, rendering
Next ==
    \/ Configure
    \/ piwik
    \/ contribute_to_analytical
    \/ Render
    \/ Search

Spec == Init /\ [][Next]_vars

(***************************************************************************)
(* The context scanner over every context: a configured project           *)
(* (example.com, site 5) with its template parsed and one request to       *)
(* render, whose context, visitor, gate verdict and dict order are drawn   *)
(* at the start.                                                           *)
(***************************************************************************)
InitScan ==
    /\ settings = [PIWIK_DOMAIN_PATH |-> Setting(EXAMPLE_COM),
                   PIWIK_SITE_ID |-> Setting(<<"5">>)]
    /\ node = [made |-> TRUE, domain_path |-> EXAMPLE_COM, site_id |-> <<"5">>]
    /\ registered = TRUE
    /\ \E context \in Contexts, v \in Visitors, internal \in BOOLEAN :
       \E order \in Orders(DOMAIN CustomVars(context)) :
           last = [Call("request") EXCEPT
                       !.context = context, !.user = v[1], !.identity = v[2],
                       !.order = order, !.internal = internal]

\* the page of the request holds the pageview tag
RenderRequest ==
    /\ last.op = "request"
    /\ RenderWith(last.context, last.user, last.identity, last.order, last.internal)

\* the page of the request holds the search tag
SearchRequest ==
    /\ last.op = "request"
    /\ SearchWith(last.context, JStr(<<"s", "h", "o", "e", "s">>), JBool(FALSE), JInt(10),
                  last.user, last.identity, last.order, last.internal)

NextScan ==
    \/ RenderRequest
    \/ SearchRequest

SpecScan == InitScan /\ [][NextScan]_vars

(***************************************************************************)
(* Reading the returned string: what a browser, or a reader of the page,   *)
(* finds in it.                                                            *)
(***************************************************************************)
Rendered == last.op \in {"render", "piwik_search"} /\ last.exc = "none"

\* the places of chunk c in s
Places(s, c) == {i \in 1..Len(s) : s[i] = c}

\* the text from place i + 1 up to the next chunk close
ArgAt(s, i, close) == SubSeq(s, i + 1, FindFrom(s, close, i + 1) - 1)

\* the text between the first chunk open and the next chunk close
Between(s, open, close) == ArgAt(s, FindFrom(s, open, 1), close)

\* a script element opens outside an HTML comment
RECURSIVE LiveScriptFrom(_, _, _)
LiveScriptFrom(s, i, inComment) ==
    IF i > Len(s) THEN FALSE
    ELSE IF inComment THEN LiveScriptFrom(s, i + 1, s[i] \notin {"-->", COMMENT_CLOSE})
    ELSE IF s[i] = COMMENT_OPEN THEN LiveScriptFrom(s, i + 1, TRUE)
    ELSE IF s[i] \in {"<script>", SCRIPT_OPEN} THEN TRUE
    ELSE LiveScriptFrom(s, i + 1, FALSE)

HasLiveScript(s) == LiveScriptFrom(s, 1, FALSE)

\* the context holds the variable key, in some scope
Holds(context, key) == \E i \in 1..Len(context) : key \in DOMAIN context[i]

\* the value of the variable key in the last scope iterated that holds it
LastValue(context, key) ==
    LET i == CHOOSE j \in 1..Len(context) :
                 /\ key \in DOMAIN context[j]
                 /\ \A k \in (j + 1)..Len(context) : key \notin DOMAIN context[k]
    IN  context[i][key]

\* the formatted snippet inside the returned string: the string itself, or
\* what the disabling comment wraps
Snippet(html) ==
    IF html # <<>> /\ html[1] = COMMENT_OPEN THEN SubSeq(html, 4, Len(html) - 1) ELSE html

(***************************************************************************)
(* Properties of the life cycle (Spec).                                    *)
(***************************************************************************)
\* both settings pass validation now
ValidNow ==
    /\ settings.PIWIK_DOMAIN_PATH.present
    /\ DOMAINPATH_RE(settings.PIWIK_DOMAIN_PATH.value)
    /\ settings.PIWIK_SITE_ID.present
    /\ SITEID_RE(settings.PIWIK_SITE_ID.value)

\* the domain path and the site ID the snippet tracks to
UrlOf(html) == Between(html, URL_OPEN, URL_CLOSE)

SiteIdOf(html) == Between(html, SITEID_OPEN, SITEID_CLOSE)

\* C1: a pageview render for a request that is not internal returns the fixed
\* template: it opens with the script element, the tracked method is
\* trackPageView, the tracker URL is the validated domain path followed by
\* /piwik.php, setSiteId is passed the validated site ID, and the noscript
\* image points at the same domain path and site ID.
C1_PageviewSnippet ==
    (last.op = "render" /\ last.exc = "none" /\ ~last.internal) =>
        LET h == last.html
            D == node.domain_path
            S == node.site_id
            u == FindFrom(h, URL_OPEN, 1)
        IN  /\ DOMAINPATH_RE(D) /\ SITEID_RE(S)
            /\ SubSeq(h, 1, 3) = <<"\n", SCRIPT_OPEN, PAQ_INIT>>
            /\ Between(h, METHOD_OPEN, METHOD_CLOSE) = <<"['trackPageView']">>
            /\ u > 0
            /\ SubSeq(h, u + 1, u + Len(D)) = D
            /\ SubSeq(h, u + Len(D) + 1, u + Len(D) + 3) = <<URL_CLOSE, TRACKER_URL, SITEID_OPEN>>
            /\ SiteIdOf(h) = S
            /\ Between(h, IMG_OPEN, IMG_PATH) = D
            /\ Between(h, IMG_PATH, IMG_CLOSE) = S

\* C1 witness: example.com and site 5 rendered for an external request, the
\* output holding setSiteId, 5 and example.com/ before piwik.php
C1_Witness ==
    /\ last.op = "render" /\ last.exc = "none" /\ ~last.internal
    /\ node.domain_path = EXAMPLE_COM /\ node.site_id = <<"5">>
    /\ \E i \in 1..Len(last.html) :
           SubSeq(last.html, i, i + 2) = <<SITEID_OPEN, "5", SITEID_CLOSE>>
    /\ \E i \in 1..Len(last.html) :
           SubSeq(last.html, i, i + 4) = <<".", "c", "o", "m", URL_CLOSE>>

\* a string of one or more digits
DigitString(v) == Len(v) >= 1 /\ \A i \in 1..Len(v) : v[i] \in Digits

\* C2: constructing the pageview tag succeeds exactly when PIWIK_DOMAIN_PATH is
\* set and matches the domain-path pattern and PIWIK_SITE_ID is set and is a
\* string of digits; otherwise it fails with a configuration error.
C2_ConstructionFailsUnlessValid ==
    ((last.op = "piwik" /\ last.bits = 1) \/ last.op = "contribute_to_analytical") =>
        (last.exc = "none" <=>
            /\ settings.PIWIK_DOMAIN_PATH.present
            /\ DOMAINPATH_RE(settings.PIWIK_DOMAIN_PATH.value)
            /\ settings.PIWIK_SITE_ID.present
            /\ DigitString(settings.PIWIK_SITE_ID.value))

\* C2, as far as the code goes: construction succeeds exactly when both
\* settings are set and match their patterns, a failure is the configuration
\* error, and a failed construction leaves no node and no registration
C2_FailsUnlessPatternsMatch ==
    /\ [](((last.op = "piwik" /\ last.bits = 1) \/ last.op = "contribute_to_analytical") =>
            /\ last.exc = "none" <=> ValidNow
            /\ last.exc \in {"none", "AnalyticalException"})
    /\ [][(last'.op \in {"piwik", "contribute_to_analytical"} /\ last'.exc # "none")
            => (node' = node /\ registered' = registered)]_vars

\* the JSON encodings of the search arguments of the model, written out
ExpectedJson(v) ==
    CASE v = JStr(<<"s", "h", "o", "e", "s">>) -> <<"\"", "s", "h", "o", "e", "s", "\"">>
      [] v = JStr(<<"a", "p", "p", "a", "r", "e", "l">>) ->
             <<"\"", "a", "p", "p", "a", "r", "e", "l", "\"">>
      [] v = JStr(<<"a", "\"", "b">>) -> <<"\"", "a", "\\", "\"", "b", "\"">>
      [] v = JBool(FALSE) -> <<"f", "a", "l", "s", "e">>
      [] v = JInt(10) -> <<"1", "0">>

\* the places where a pre-track statement starts
PretrackPlaces(h) ==
    Places(h, USERID_OPEN) \cup Places(h, TITLE_OPEN) \cup Places(h, CUSTOM_OPEN)

\* C5: the search tag pushes one tracked method, trackSiteSearch with the JSON
\* encodings of query, category and count in that order (false for an omitted
\* category or count), after every pre-track statement.
C5_SearchCall ==
    (last.op = "piwik_search" /\ last.exc = "none") =>
        LET h == Snippet(last.html) IN
        /\ Cardinality(Places(h, METHOD_OPEN)) = 1
        /\ Between(h, METHOD_OPEN, METHOD_CLOSE) =
               <<"['trackSiteSearch', ">> \o ExpectedJson(last.query)
               \o <<", ">> \o ExpectedJson(last.category)
               \o <<", ">> \o ExpectedJson(last.count) \o <<"]">>
        /\ \A i \in PretrackPlaces(h) : i < FindFrom(h, METHOD_OPEN, 1)

\* C5 witness: shoes, apparel, 10 searched on a page with a custom variable
C5_Witness ==
    /\ last.op = "piwik_search" /\ last.exc = "none"
    /\ last.context # <<>>
    /\ PretrackPlaces(last.html) # {}
    /\ Between(last.html, METHOD_OPEN, METHOD_CLOSE) =
           <<"['trackSiteSearch', ", "\"", "s", "h", "o", "e", "s", "\"", ", ",
             "\"", "a", "p", "p", "a", "r", "e", "l", "\"", ", ", "1", "0", "]">>

\* C7, state part: a render never raises the configuration error and tracks
\* to the values its node holds, whatever the settings are now; a search
\* raises the configuration error exactly when the settings are missing or
\* invalid now, and otherwise tracks to the settings as they are now
C7_ValidatedWhen ==
    /\ last.op = "render" =>
           /\ last.exc # "AnalyticalException"
           /\ last.exc = "none" =>
                  /\ UrlOf(last.html) = node.domain_path
                  /\ SiteIdOf(last.html) = node.site_id
    /\ last.op = "piwik_search" =>
           /\ last.exc = "AnalyticalException" <=> ~ValidNow
           /\ last.exc = "none" =>
                  /\ UrlOf(last.html) = settings.PIWIK_DOMAIN_PATH.value
                  /\ SiteIdOf(last.html) = settings.PIWIK_SITE_ID.value

\* C7, step part: the values a node holds are set only by a successful
\* construction, from the settings valid at that moment
C7_CapturedAtConstruction ==
    node' # node =>
        /\ last'.op = "piwik" /\ last'.exc = "none"
        /\ ValidNow
        /\ node'.domain_path = settings.PIWIK_DOMAIN_PATH.value
        /\ node'.site_id = settings.PIWIK_SITE_ID.value

\* C7: the pageview tag validates once, at construction, and every later
\* render uses the captured values without a configuration error even when
\* the settings have changed or become invalid; the search tag validates and
\* reads the settings at every call.
C7_ConstructionVersusCall ==
    []C7_ValidatedWhen /\ [][C7_CapturedAtConstruction]_vars

\* C7 witness: a render that succeeds on settings that are invalid now
C7_Witness ==
    /\ last.op = "render" /\ last.exc = "none"
    /\ ~ValidNow
    /\ settings.PIWIK_DOMAIN_PATH # Setting(node.domain_path)
    /\ UrlOf(last.html) = node.domain_path

(***************************************************************************)
(* Properties of the context scanner and of the gate (SpecScan).           *)
(***************************************************************************)
Called == last.op \in {"render", "piwik_search"}

\* the custom-variable keys of the model that are well formed, with the name
\* and the scope each one spells
WellFormedKeys == {KEY_A, KEY_B}

NameOf(key) == IF key = KEY_A THEN <<"a">> ELSE <<"b">>

ScopeOf(key) == IF key = KEY_A THEN <<"p", "a", "g", "e">> ELSE <<"v", "i", "s", "i", "t">>

\* the j-th place of chunk c in s
PlaceNo(s, c, j) ==
    CHOOSE p \in Places(s, c) : Cardinality({q \in Places(s, c) : q < p}) = j - 1

\* the setCustomVariable call that starts at place p: its four arguments
CustomCallAt(h, p) ==
    LET q1 == FindFrom(h, CUSTOM_NAME, p + 1)
        q2 == FindFrom(h, CUSTOM_NEXT, q1 + 1)
        q3 == FindFrom(h, CUSTOM_NEXT, q2 + 1)
        q4 == FindFrom(h, CUSTOM_CLOSE, q3 + 1)
    IN  [index |-> SubSeq(h, p + 1, q1 - 1), name |-> SubSeq(h, q1 + 1, q2 - 1),
         value |-> SubSeq(h, q2 + 1, q3 - 1), scope |-> SubSeq(h, q3 + 1, q4 - 1)]

\* C3: with piwik_userid in the context, the output of either tag holds
\* exactly one setUserId call, and its argument is the context's value (of the
\* scope iterated last), whoever the user of the context is.
C3_OneUserIdFromContext ==
    (Rendered /\ Holds(last.context, KEY_USERID)) =>
        LET P == Places(last.html, USERID_OPEN) IN
        /\ Cardinality(P) = 1
        /\ \A i \in P : ArgAt(last.html, i, DQ_CLOSE) = LastValue(last.context, KEY_USERID)

\* C3 witness: piwik_userid = 42 rendered for the authenticated user bob
C3_Witness ==
    /\ Rendered /\ Holds(last.context, KEY_USERID)
    /\ last.user.authenticated /\ last.user.username = <<"b", "o", "b">>
    /\ \E i \in 1..Len(last.html) :
           SubSeq(last.html, i, i + 3) = <<USERID_OPEN, "4", "2", DQ_CLOSE>>

\* C4: with piwik_document_title in the context, the output holds one
\* setDocumentTitle call with that value, before every setCustomVariable
\* call, and the title key makes no setCustomVariable call: there are as many
\* of those as custom-variable keys.
C4_TitleBeforeCustomVariables ==
    (Rendered /\ Holds(last.context, KEY_TITLE)) =>
        LET h == last.html
            T == Places(h, TITLE_OPEN)
        IN  /\ Cardinality(T) = 1
            /\ \A i \in T : ArgAt(h, i, DQ_CLOSE) = LastValue(last.context, KEY_TITLE)
            /\ \A i \in T : \A j \in Places(h, CUSTOM_OPEN) : i < j
            /\ Cardinality(Places(h, CUSTOM_OPEN)) =
                   Cardinality({k \in WellFormedKeys : Holds(last.context, k)})

\* C4 witness: a title and a custom variable rendered
C4_Witness ==
    /\ Rendered /\ Holds(last.context, KEY_TITLE) /\ Holds(last.context, KEY_A)
    /\ Places(last.html, CUSTOM_OPEN) # {}
    /\ \E i \in 1..Len(last.html) :
           SubSeq(last.html, i, i + 5) = <<TITLE_OPEN, "H", "o", "m", "e", DQ_CLOSE>>

\* C6: for both tags, a request the gate flags gets the snippet inside the
\* disabling comment and no live script element; any other request gets the
\* snippet as formatted.
C6_GateDisablesScript ==
    Rendered =>
        IF last.internal
        THEN /\ SubSeq(last.html, 1, 3) = <<COMMENT_OPEN, "Piwik", COMMENT_NOTE>>
             /\ last.html[Len(last.html)] = COMMENT_CLOSE
             /\ last.html[5] = SCRIPT_OPEN
             /\ ~HasLiveScript(last.html)
        ELSE /\ last.html[2] = SCRIPT_OPEN
             /\ Snippet(last.html) = last.html

\* some value of the context holds markup
HoldsMarkup(context) ==
    \E i \in 1..Len(context) : \E k \in DOMAIN context[i] :
        StartsWith(k, PREFIX) /\ context[i][k] = VMarkup

\* C6, where no tracked value of the context holds markup: the gate disables
\* the script
C6_GateDisablesScriptOfPlainValues ==
    (Rendered /\ ~HoldsMarkup(last.context)) => C6_GateDisablesScript

\* C8: a prefixed key other than userid and document_title without a
\* separator of name and scope makes either tag raise; nothing is returned.
C8_MalformedKeyRaises ==
    (Called /\ Holds(last.context, KEY_BAD)) =>
        (last.exc = "ValueError" /\ last.html = <<>>)

\* C8 witness: piwik_bad beside a well-formed custom variable
C8_Witness ==
    /\ last.op = "render" /\ last.exc = "ValueError"
    /\ Holds(last.context, KEY_BAD) /\ Holds(last.context, KEY_A)

\* C9: without piwik_userid in the context, a setUserId call is written
\* exactly when the context has an authenticated user: then one call, with
\* the identity the helper returns (the username unless overridden); and the
\* render succeeds whoever the user is.
C9_UserIdFromLookup ==
    (Called /\ ~Holds(last.context, KEY_USERID)) =>
        /\ ~Holds(last.context, KEY_BAD) => last.exc = "none"
        /\ last.exc = "none" =>
               LET P == Places(last.html, USERID_OPEN) IN
               /\ P # {} <=> (last.user.present /\ last.user.authenticated)
               /\ Cardinality(P) <= 1
               /\ \A i \in P :
                      ArgAt(last.html, i, DQ_CLOSE) =
                          IF last.identity.present THEN last.identity.value
                          ELSE last.user.username

\* C9 witness: bob, authenticated, on a page without piwik_userid
C9_Witness ==
    /\ Rendered /\ ~Holds(last.context, KEY_USERID)
    /\ last.user.authenticated /\ ~last.identity.present
    /\ \E i \in 1..Len(last.html) :
           SubSeq(last.html, i, i + 4) = <<USERID_OPEN, "b", "o", "b", DQ_CLOSE>>

\* C10: when the n custom-variable keys of the context are well formed, the
\* output holds n setCustomVariable calls; the j-th key of the iteration
\* order gets the call with index j - 1, its name, its scope and its value of
\* the scope iterated last; userid and document_title take no index.
C10_CustomVariablesIndexed ==
    (Called /\ ~Holds(last.context, KEY_BAD)) =>
        LET h == last.html
            keys == {k \in WellFormedKeys : Holds(last.context, k)}
            n == Cardinality(keys)
        IN  /\ last.exc = "none"
            /\ Cardinality(Places(h, CUSTOM_OPEN)) = n
            /\ Len(last.order) = n
            /\ {PREFIX \o last.order[j] : j \in 1..n} = keys
            /\ \A j \in 1..n :
                   LET c == CustomCallAt(h, PlaceNo(h, CUSTOM_OPEN, j))
                       key == PREFIX \o last.order[j]
                   IN  /\ c.index = <<DigitChars[j]>>
                       /\ c.name = NameOf(key)
                       /\ c.scope = ScopeOf(key)
                       /\ c.value = LastValue(last.context, key)

\* C10 witness: two custom variables beside a user id or a title, piwik_b_visit
\* iterated first and given index 0
C10_Witness ==
    /\ Rendered
    /\ Holds(last.context, KEY_A) /\ Holds(last.context, KEY_B)
    /\ Holds(last.context, KEY_USERID) \/ Holds(last.context, KEY_TITLE)
    /\ last.order = <<DropPrefix(KEY_B, 6), DropPrefix(KEY_A, 6)>>
    /\ \E i \in 1..Len(last.html) :
           SubSeq(last.html, i, i + 4) = <<CUSTOM_OPEN, "0", CUSTOM_NAME, "b", CUSTOM_NEXT>>

\* C10, the same key in two scopes: one call, with the value of the scope
\* iterated last
C10_WitnessTwoScopes ==
    /\ Rendered /\ Len(last.context) = 2
    /\ KEY_A \in DOMAIN last.context[1] /\ KEY_A \in DOMAIN last.context[2]
    /\ last.context[1][KEY_A] = VMarkup /\ last.context[2][KEY_A] = V42
    /\ Cardinality(Places(last.html, CUSTOM_OPEN)) = 1
    /\ CustomCallAt(last.html, PlaceNo(last.html, CUSTOM_OPEN, 1)).value = V42

====
